---------------------------- MODULE Spec2Model ----------------------------
(***************************************************************************)
(* EcoTrack waste-diversion tracker (src/app.py).                          *)
(*                                                                         *)
(* The program is a Streamlit script: every user interaction re-runs the   *)
(* script top to bottom (load_data at line 74, then the page selected in   *)
(* the sidebar).  The only shared state is the CSV file DATA_FILE.  The    *)
(* model keeps the file's text (as typed tokens), each session's position  *)
(* in the script and its locals, and the wall-clock date.                  *)
(***************************************************************************)
EXTENDS Integers, Sequences, FiniteSets, TLC

\* ------------------------------------------------------------------ bounds
MaxSaves == 2       \* save_entry calls started in one behaviour
MaxDays == 1        \* midnights that pass in one behaviour
MaxFailures == 1    \* writes that fail in one behaviour

Sessions == {1, 2}  \* browser sessions running the script

\* -------------------------------------------------------------- data frames
ColNames == {"Date", "Recycling", "Compost", "Landfill"}
QtyCols == {"Recycling", "Compost", "Landfill"}

\* In-memory cells.  v is the whole number of kg, or the day number of a date.
IntCell(n) == [k |-> "int", v |-> n]            \* numpy int64
FloatCell(n) == [k |-> "float", v |-> n]        \* numpy float64 (n.0)
NaN == [k |-> "nan", v |-> 0]                   \* float NaN
DateCell(d) == [k |-> "date", v |-> d]          \* datetime.date
\* str objects of an object-dtype column are kept with their text:
\* "s_iso" YYYY-MM-DD, "s_ilit" digits, "s_flit" digits.0, "s_text" anything else.

NumKinds == {"int", "float", "nan"}

EmptyFrame == [cols |-> {}, rows |-> <<>>]

ColumnCells(df, c) == {df.rows[i][c] : i \in 1..Len(df.rows)}

\* ------------------------------------------------------------------ CSV text
\* Tokens of the file: "ilit" digits, "flit" digits.0, "iso" YYYY-MM-DD,
\* "empty" nothing between the commas, "text" any other text.
NoFile == [kind |-> "absent", cols |-> {}, rows |-> <<>>]
ZeroBytes == [kind |-> "empty", cols |-> {}, rows |-> <<>>]

FormatCell(cell) ==
  CASE cell.k = "int" -> [k |-> "ilit", v |-> cell.v]
    [] cell.k = "float" -> [k |-> "flit", v |-> cell.v]
    [] cell.k = "nan" -> [k |-> "empty", v |-> 0]
    [] cell.k = "date" -> [k |-> "iso", v |-> cell.v]
    [] cell.k = "s_iso" -> [k |-> "iso", v |-> cell.v]
    [] cell.k = "s_ilit" -> [k |-> "ilit", v |-> cell.v]
    [] cell.k = "s_flit" -> [k |-> "flit", v |-> cell.v]
    [] OTHER -> [k |-> "text", v |-> cell.v]

\* DataFrame.to_csv(index=False): the header and one line per row.
to_csv(df) ==
  [kind |-> "table", cols |-> df.cols,
   rows |-> [i \in 1..Len(df.rows) |-> [c \in df.cols |-> FormatCell(df.rows[i][c])]]]

\* pandas' dtype inference for one column of a file.
InferDtype(f, c) ==
  LET toks == {f.rows[i][c].k : i \in 1..Len(f.rows)}
  IN  IF toks = {} THEN "object"
      ELSE IF toks \subseteq {"ilit"} THEN "int64"
      ELSE IF toks \subseteq {"ilit", "flit", "empty"} THEN "float64"
      ELSE "object"

ParseToken(tok, dtype) ==
  CASE tok.k = "empty" -> NaN
    [] dtype = "int64" -> IntCell(tok.v)
    [] dtype = "float64" -> FloatCell(tok.v)
    [] tok.k = "iso" -> [k |-> "s_iso", v |-> tok.v]
    [] tok.k = "ilit" -> [k |-> "s_ilit", v |-> tok.v]
    [] tok.k = "flit" -> [k |-> "s_flit", v |-> tok.v]
    [] OTHER -> [k |-> "s_text", v |-> tok.v]

\* pd.read_csv of a parseable file.
read_csv(f) ==
  [cols |-> f.cols,
   rows |-> [i \in 1..Len(f.rows) |->
               [c \in f.cols |-> ParseToken(f.rows[i][c], InferDtype(f, c))]]]

\* pd.concat([df, new_entry], ignore_index=True): the union of the columns, NaN
\* where a frame lacks one, and int64 lifted to float64 where a numeric column
\* now holds a float or a NaN.
Reindex(row, have, cols) == [c \in cols |-> IF c \in have THEN row[c] ELSE NaN]

Upcast(df) ==
  LET lift(c) == /\ \A x \in ColumnCells(df, c) : x.k \in NumKinds
                 /\ \E x \in ColumnCells(df, c) : x.k # "int"
  IN  [cols |-> df.cols,
       rows |-> [i \in 1..Len(df.rows) |->
                   [c \in df.cols |->
                      IF lift(c) /\ df.rows[i][c].k = "int"
                      THEN FloatCell(df.rows[i][c].v) ELSE df.rows[i][c]]]]

\* Fault: the new row put before the old ones.
ConcatNewFirst(df, new) ==
  LET cols == df.cols \cup new.cols
      ext(d) == [i \in 1..Len(d.rows) |-> Reindex(d.rows[i], d.cols, cols)]
  IN  Upcast([cols |-> cols, rows |-> ext(new) \o ext(df)])

concat(df, new) ==
  LET cols == df.cols \cup new.cols
      ext(d) == [i \in 1..Len(d.rows) |-> Reindex(d.rows[i], d.cols, cols)]
  IN  Upcast([cols |-> cols, rows |-> ext(df) \o ext(new)])

\* --------------------------------------------------------------- load_data
SeedRecycling == <<45, 48, 50, 52, 40>>
SeedCompost == <<20, 22, 25, 28, 15>>
SeedLandfill == <<100, 95, 90, 85, 110>>

\* The frame load_data builds when DATA_FILE is missing.
SeedFrame(now) ==
  [cols |-> ColNames,
   rows |-> [i \in 1..5 |->
               [Date |-> DateCell(now - (i - 1) * 7),
                Recycling |-> IntCell(SeedRecycling[i]),
                Compost |-> IntCell(SeedCompost[i]),
                Landfill |-> IntCell(SeedLandfill[i])]]]

\* Fault: the test for the file left out, the seed written on every load.
PathNeverExists(f) == FALSE

\* os.path.exists(DATA_FILE)
PathExists(f) == f.kind # "absent"

\* The new_entry frame of save_entry.
NewEntry(now, a) ==
  [cols |-> ColNames,
   rows |-> << [Date |-> DateCell(now), Recycling |-> a[1],
                Compost |-> a[2], Landfill |-> a[3]] >>]

\* Fault (or another design): the file opened in append mode, so that only the
\* new last line is added to what is there.
WriteCsvAppendMode(f, df) ==
  IF f.kind = "table" /\ f.cols = df.cols /\ df.rows # <<>>
  THEN [kind |-> "table", cols |-> df.cols,
        rows |-> Append(f.rows, to_csv(df).rows[Len(df.rows)])]
  ELSE to_csv(df)

\* What df.to_csv(DATA_FILE) leaves on disk when it completes: the file is
\* opened for writing, which truncates it, and the whole frame is written.
WriteCsv(f, df) == to_csv(df)

\* What it may leave when it raises OSError: the old file (the open was
\* refused), nothing (truncated, nothing flushed), or the start of the new
\* text (of the prefixes: the header alone, and all but the last line).
FailedWrite(f, df) ==
  {f, ZeroBytes} \cup
  {[kind |-> "table", cols |-> df.cols, rows |-> SubSeq(to_csv(df).rows, 1, n)] :
     n \in {0, Len(df.rows) - 1}}

\* ------------------------------------------------------------- exact reals
\* Python floats are modelled as exact fractions <<n, d>>, d > 0, in lowest terms.
RECURSIVE GCD(_, _)
GCD(a, b) == IF b = 0 THEN a ELSE GCD(b, a % b)

Abs(n) == IF n < 0 THEN -n ELSE n

Rat(n, d) ==
  LET g == GCD(Abs(n), Abs(d))
      sg == IF d < 0 THEN -1 ELSE 1
  IN  <<(sg * n) \div g, (sg * d) \div g>>

\* The sum over the least common denominator, the product with the common
\* factors cancelled first: the numbers stay small.
RAdd(p, q) ==
  LET g == GCD(p[2], q[2])
  IN  Rat(p[1] * (q[2] \div g) + q[1] * (p[2] \div g), (p[2] \div g) * q[2])
RNeg(p) == <<-p[1], p[2]>>
RSub(p, q) == RAdd(p, RNeg(q))
RMul(p, q) ==
  LET a == Rat(p[1], q[2])
      b == Rat(q[1], p[2])
  IN  <<a[1] * b[1], a[2] * b[2]>>
RDiv(p, q) == RMul(p, IF q[1] < 0 THEN <<-q[2], -q[1]>> ELSE <<q[2], q[1]>>)
RInt(n) == <<n, 1>>

RECURSIVE RSum(_)
RSum(qs) == IF qs = <<>> THEN RInt(0) ELSE RAdd(qs[1], RSum(Tail(qs)))

\* ----------------------------------------------------------------- metrics
\* Whether the arithmetic of the pages runs on df: the three quantity columns
\* are there (else KeyError) and hold numbers (else TypeError).
PageError(df) ==
  IF ~(QtyCols \subseteq df.cols) THEN "KeyError"
  ELSE IF \E c \in QtyCols : \E x \in ColumnCells(df, c) : x.k \notin NumKinds
       THEN "TypeError"
  ELSE "none"

\* Series.sum(): NaN is skipped, the sum of no rows is 0.
RECURSIVE SumCells(_, _, _)
SumCells(df, c, i) ==
  IF i = 0 THEN 0
  ELSE SumCells(df, c, i - 1) + (IF df.rows[i][c].k = "nan" THEN 0 ELSE df.rows[i][c].v)

ColumnSum(df, c) == SumCells(df, c, Len(df.rows))

\* The guard of the dashboard's division.
DivisionDefined(grand_total) == grand_total > 0

\* Fault: the compost left out of the diverted mass.
DashboardRecyclingOnly(df) ==
  LET total_recycling == ColumnSum(df, "Recycling")
      total_compost == ColumnSum(df, "Compost")
      total_landfill == ColumnSum(df, "Landfill")
      grand_total == total_recycling + total_compost + total_landfill
      div_rate == IF DivisionDefined(grand_total)
                  THEN RMul(Rat(total_recycling, grand_total), RInt(100))
                  ELSE RInt(0)
  IN  [total_recycling |-> total_recycling, total_compost |-> total_compost,
       total_landfill |-> total_landfill, grand_total |-> grand_total,
       div_rate |-> div_rate]

\* Executive Dashboard: the totals and the diversion rate.
Dashboard(df) ==
  LET total_recycling == ColumnSum(df, "Recycling")
      total_compost == ColumnSum(df, "Compost")
      total_landfill == ColumnSum(df, "Landfill")
      grand_total == total_recycling + total_compost + total_landfill
      div_rate == IF DivisionDefined(grand_total)
                  THEN RMul(Rat(total_recycling + total_compost, grand_total), RInt(100))
                  ELSE RInt(0)
  IN  [total_recycling |-> total_recycling, total_compost |-> total_compost,
       total_landfill |-> total_landfill, grand_total |-> grand_total,
       div_rate |-> div_rate]

\* Fault: the levels counted from 0.
LevelFromZero(total_saved) == total_saved \div 100

\* Gamification: the level, the progress bar and the badges.
Level(total_saved) == (total_saved \div 100) + 1

Progress(total_saved) == Rat(total_saved % 100, 100)

Badges(total_saved) ==
  (IF total_saved > 10 THEN {"Beginner"} ELSE {}) \cup
  (IF total_saved > 100 THEN {"Recycler"} ELSE {}) \cup
  (IF total_saved > 500 THEN {"Guardian"} ELSE {})

Gamification(df) ==
  LET total_saved == ColumnSum(df, "Recycling") + ColumnSum(df, "Compost")
  IN  [total_saved |-> total_saved, level |-> Level(total_saved),
       progress |-> Progress(total_saved), badges |-> Badges(total_saved)]

\* ---------------------------------------------------------------- forecast
\* df['Rate'] of one row: a float, NaN (a NaN operand, or 0/0) or +-inf (x/0).
RowRate(row) ==
  LET r == row["Recycling"]
      c == row["Compost"]
      l == row["Landfill"]
      num == r.v + c.v
      den == r.v + c.v + l.v
  IN  IF "nan" \in {r.k, c.k, l.k} THEN [k |-> "nan", q |-> RInt(0)]
      ELSE IF den = 0
           THEN IF num = 0 THEN [k |-> "nan", q |-> RInt(0)]
                ELSE [k |-> "inf", q |-> RInt(IF num > 0 THEN 1 ELSE -1)]
      ELSE [k |-> "num", q |-> RMul(Rat(num, den), RInt(100))]

\* Series.fillna(0)
FillNa(rate) == IF rate.k = "nan" THEN [k |-> "num", q |-> RInt(0)] ELSE rate

\* y of the regression: df['Rate'].fillna(0), by Week_Num = 1..len(df).
RateSeries(df) == [i \in 1..Len(df.rows) |-> FillNa(RowRate(df.rows[i]))]

\* Fault: the guard off by one, two points refused.
EnoughDataAboveTwo(n) == n > 2

\* The guard of the AI Analyst page.
EnoughData(n) == n > 1

\* LinearRegression().fit(X, y) with one feature: the data are centred and the
\* least-squares slope and intercept solved in closed form.
Fit(ys) ==
  LET n == Len(ys)
      xbar == Rat((n * (n + 1)) \div 2, n)
      ybar == RDiv(RSum(ys), RInt(n))
      sxy == RSum([i \in 1..n |-> RMul(RSub(RInt(i), xbar), RSub(ys[i], ybar))])
      sxx == RSum([i \in 1..n |-> RMul(RSub(RInt(i), xbar), RSub(RInt(i), xbar))])
      coef == RDiv(sxy, sxx)
  IN  [coef |-> coef, intercept |-> RSub(ybar, RMul(coef, xbar))]

\* future_weeks: range(len(df)+1, len(df)+5)
FutureWeeks(n) == [j \in 1..4 |-> n + j]

\* model.predict(future_weeks)
Predict(m, weeks) ==
  [j \in 1..Len(weeks) |-> RAdd(RMul(m.coef, RInt(weeks[j])), m.intercept)]

\* AI Analyst: the page's outcome.
Analyst(df) ==
  LET n == Len(df.rows)
      series == RateSeries(df)
  IN  IF ~EnoughData(n)
      THEN [err |-> "none", msg |-> "Need more data to predict.",
            weeks |-> <<>>, predictions |-> <<>>]
      ELSE IF \E i \in 1..n : series[i].k # "num"
      THEN [err |-> "ValueError", msg |-> "", weeks |-> <<>>, predictions |-> <<>>]
      ELSE [err |-> "none", msg |-> "Predicted Rate Next Week",
            weeks |-> FutureWeeks(n),
            predictions |-> Predict(Fit([i \in 1..n |-> series[i].q]), FutureWeeks(n))]

\* ------------------------------------------------------------ Smart Sorter
\* A str is a sequence of one-character strings.
UpperCase == <<"A", "B", "C", "D", "E", "F", "G", "H", "I", "J", "K", "L", "M", "N", "O", "P", "Q", "R", "S", "T", "U", "V", "W", "X", "Y", "Z">>
LowerCase == <<"a", "b", "c", "d", "e", "f", "g", "h", "i", "j", "k", "l", "m", "n", "o", "p", "q", "r", "s", "t", "u", "v", "w", "x", "y", "z">>
Whitespace == {" ", "\t"}

\* str.lower(), one character
LowerMap ==
  [ch \in {UpperCase[i] : i \in 1..Len(UpperCase)} |->
     LowerCase[CHOOSE i \in 1..Len(UpperCase) : UpperCase[i] = ch]]

LowerChar(ch) == IF ch \in DOMAIN LowerMap THEN LowerMap[ch] ELSE ch

\* str.lower()
Lower(str) == [i \in 1..Len(str) |-> LowerChar(str[i])]

\* str.strip(): the whitespace at both ends is dropped.
RECURSIVE LStrip(_)
LStrip(str) ==
  IF str # <<>> /\ Head(str) \in Whitespace THEN LStrip(Tail(str)) ELSE str

RECURSIVE RStrip(_)
RStrip(str) ==
  IF str # <<>> /\ str[Len(str)] \in Whitespace
  THEN RStrip(SubSeq(str, 1, Len(str) - 1)) ELSE str

Strip(str) == RStrip(LStrip(str))

\* Fault: the query trimmed but not lowered.
NormalizeNoLower(item) == Strip(item)

\* item.lower().strip()
Normalize(item) == Strip(Lower(item))

\* key in item
Contains(item, key) ==
  \E i \in 0..(Len(item) - Len(key)) : SubSeq(item, i + 1, i + Len(key)) = key

\* The dict of get_waste_advice, in its definition (and so iteration) order.
database == <<
  [key |-> <<"p", "i", "z", "z", "a", " ", "b", "o", "x">>,
   advice |-> "Compost (if greasy) / Recycle (if clean)"],
  [key |-> <<"p", "l", "a", "s", "t", "i", "c", " ", "b", "o", "t", "t", "l", "e">>,
   advice |-> "Recycle (Rinse first)"],
  [key |-> <<"b", "a", "n", "a", "n", "a", " ", "p", "e", "e", "l">>,
   advice |-> "Compost"],
  [key |-> <<"s", "t", "y", "r", "o", "f", "o", "a", "m">>,
   advice |-> "Landfill (Avoid usage!)"],
  [key |-> <<"a", "l", "u", "m", "i", "n", "u", "m", " ", "f", "o", "i", "l">>,
   advice |-> "Recycle (Clean)"],
  [key |-> <<"b", "a", "t", "t", "e", "r", "i", "e", "s">>,
   advice |-> "E-Waste Drop-off (Do not bin)"],
  [key |-> <<"c", "o", "f", "f", "e", "e", " ", "c", "u", "p">>,
   advice |-> "Landfill (Lined with plastic) / Lid is Recyclable"],
  [key |-> <<"g", "l", "a", "s", "s", " ", "j", "a", "r">>,
   advice |-> "Recycle"]
>>

UnknownItem == "Unknown item. General rule: When in doubt, throw it out (Landfill)."

\* for key in database: if key in item: return database[key]
RECURSIVE ScanFrom(_, _)
ScanFrom(item, i) ==
  IF i > Len(database) THEN UnknownItem
  ELSE IF Contains(item, database[i].key) THEN database[i].advice
  ELSE ScanFrom(item, i + 1)

get_waste_advice(item) == ScanFrom(Normalize(item), 1)

\* ------------------------------------------------------------------ inputs
\* What the form of the Daily Logger can submit: number_input(0.0, 1000.0)
\* returns floats in that range (10, 5, 20 are the defaults).
FormValues ==
  {<<FloatCell(10), FloatCell(5), FloatCell(20)>>,
   <<FloatCell(0), FloatCell(0), FloatCell(0)>>,
   <<FloatCell(5), FloatCell(2), FloatCell(3)>>}

\* What a caller that does not go through the form can pass to save_entry.
CallerValues ==
  {<<IntCell(-400), IntCell(0), IntCell(0)>>,
   <<IntCell(5), IntCell(0), IntCell(-5)>>}

\* Search terms typed into the Smart Sorter.
Phrases == {
  <<"p", "l", "a", "s", "t", "i", "c", " ", "b", "o", "t", "t", "l", "e">>,
  <<"a", " ", "u", "s", "e", "d", " ", "p", "l", "a", "s", "t", "i", "c", " ", "b", "o", "t", "t", "l", "e">>,
  <<"t", "i", "r", "e">>,
  <<"g", "l", "a", "s", "s", " ", "j", "a", "r", " ", "p", "i", "z", "z", "a", " ", "b", "o", "x">>
}

UpperMap ==
  [ch \in {LowerCase[i] : i \in 1..Len(LowerCase)} |->
     UpperCase[CHOOSE i \in 1..Len(LowerCase) : LowerCase[i] = ch]]

Upper(str) == [i \in 1..Len(str) |-> IF str[i] \in DOMAIN UpperMap THEN UpperMap[str[i]] ELSE str[i]]

Variants(str) ==
  {str, Upper(str), <<" ", " ">> \o str \o <<" ", " ">>, <<"\t">> \o Upper(str) \o <<" ">>}

SearchTerms == UNION {Variants(b) : b \in Phrases}

\* DATA_FILE as the program may find it when it starts.
IsoTok(d) == [k |-> "iso", v |-> d]
FlitTok(n) == [k |-> "flit", v |-> n]
IlitTok(n) == [k |-> "ilit", v |-> n]
TextTok == [k |-> "text", v |-> 0]

InitialFiles ==
  { NoFile,
    [kind |-> "table", cols |-> ColNames, rows |-> <<>>],
    [kind |-> "table", cols |-> ColNames,
     rows |-> << [Date |-> IsoTok(-1), Recycling |-> FlitTok(10),
                  Compost |-> FlitTok(5), Landfill |-> FlitTok(20)] >>],
    [kind |-> "table", cols |-> {"Date", "Recycling"},
     rows |-> << [Date |-> IsoTok(-1), Recycling |-> IlitTok(5)] >>],
    [kind |-> "table", cols |-> ColNames,
     rows |-> << [Date |-> IsoTok(-1), Recycling |-> IlitTok(5),
                  Compost |-> TextTok, Landfill |-> IlitTok(3)] >>] }

\* ------------------------------------------------------------------- state
VARIABLES
  file,        \* DATA_FILE on disk
  today,       \* datetime.now().date(), as a day number
  pc,          \* where each session's script run is
  ctx,         \* who called load_data: the script ("main") or save_entry ("save")
  df,          \* the script's df (line 74)
  args,        \* save_entry's arguments
  ret,         \* save_entry's df, which it returns
  res,         \* what the run showed: the page, the exception, the values
  nsaves,      \* save_entry calls started
  nfail,       \* writes that failed
  version,     \* how many times the file was written
  stamp,       \* the version of the file that save_entry read
  wrote        \* the version of the file that save_entry wrote (0: none)

vars == <<file, today, pc, ctx, df, args, ret, res, nsaves, nfail, version, stamp, wrote>>

NoArgs == <<NaN, NaN, NaN>>
NoRes == [page |-> "none", err |-> "none", val |-> <<>>]

Init ==
  /\ file \in InitialFiles
  /\ today = 0
  /\ pc = [s \in Sessions |-> "idle"]
  /\ ctx = [s \in Sessions |-> "main"]
  /\ df = [s \in Sessions |-> EmptyFrame]
  /\ args = [s \in Sessions |-> NoArgs]
  /\ ret = [s \in Sessions |-> EmptyFrame]
  /\ res = [s \in Sessions |-> NoRes]
  /\ nsaves = 0
  /\ nfail = 0
  /\ version = 0
  /\ stamp = [s \in Sessions |-> 0]
  /\ wrote = [s \in Sessions |-> 0]

AllIdle == \A t \in Sessions : pc[t] = "idle"

\* Midnight passes.
Tick ==
  /\ today < MaxDays
  /\ today' = today + 1
  /\ UNCHANGED <<file, pc, ctx, df, args, ret, res, nsaves, nfail, version, stamp, wrote>>

\* An interaction starts a run of the script, which calls load_data (line 74).
Run(s) ==
  /\ pc[s] = "idle"
  /\ pc' = [pc EXCEPT ![s] = "exists"]
  /\ ctx' = [ctx EXCEPT ![s] = "main"]
  /\ UNCHANGED <<file, today, df, args, ret, res, nsaves, nfail, version, stamp, wrote>>

\* The same, with no other run in progress.
RunAlone(s) == AllIdle /\ Run(s)

\* load_data, line 25: the test for the file.
Exists(s) ==
  /\ pc[s] = "exists"
  /\ pc' = [pc EXCEPT ![s] = IF PathExists(file) THEN "read" ELSE "seed"]
  /\ UNCHANGED <<file, today, ctx, df, args, ret, res, nsaves, nfail, version, stamp, wrote>>

\* load_data, lines 26-32: the seed is written.
Seed(s) ==
  /\ pc[s] = "seed"
  /\ file' = WriteCsv(file, SeedFrame(today))
  /\ version' = version + 1
  /\ pc' = [pc EXCEPT ![s] = "read"]
  /\ UNCHANGED <<today, ctx, df, args, ret, res, nsaves, nfail, stamp, wrote>>

\* load_data, line 32: to_csv raises OSError, which ends the run.
SeedFails(s) ==
  /\ pc[s] = "seed"
  /\ nfail < MaxFailures
  /\ nfail' = nfail + 1
  /\ file' \in FailedWrite(file, SeedFrame(today))
  /\ version' = version + 1
  /\ res' = [res EXCEPT ![s].err = "OSError"]
  /\ pc' = [pc EXCEPT ![s] = "done"]
  /\ UNCHANGED <<today, ctx, df, args, ret, nsaves, stamp, wrote>>

\* load_data, line 33: read_csv returns the frame to the caller, or raises on a
\* file it cannot parse (a file of no bytes: EmptyDataError).
Read(s) ==
  /\ pc[s] = "read"
  /\ IF file.kind = "table"
     THEN /\ pc' = [pc EXCEPT ![s] = IF ctx[s] = "main" THEN "page" ELSE "write"]
          /\ df' = [df EXCEPT ![s] = IF ctx[s] = "main" THEN read_csv(file) ELSE @]
          /\ ret' = [ret EXCEPT ![s] = IF ctx[s] = "save" THEN read_csv(file) ELSE @]
          /\ stamp' = [stamp EXCEPT ![s] = IF ctx[s] = "save" THEN version ELSE @]
          /\ res' = res
     ELSE /\ pc' = [pc EXCEPT ![s] = "done"]
          /\ res' = [res EXCEPT ![s].err =
                       IF file.kind = "empty" THEN "EmptyDataError" ELSE "FileNotFoundError"]
          /\ UNCHANGED <<df, ret, stamp>>
  /\ UNCHANGED <<file, today, ctx, args, nsaves, nfail, version, wrote>>

\* A page that only computes and shows: its outcome ends the run.
Show(s, page, err, val) ==
  /\ pc[s] = "page"
  /\ res' = [res EXCEPT ![s] = [page |-> page, err |-> err, val |-> val]]
  /\ pc' = [pc EXCEPT ![s] = "done"]
  /\ UNCHANGED <<file, today, ctx, df, args, ret, nsaves, nfail, version, stamp, wrote>>

\* Lines 77-111.
DashboardPage(s) ==
  Show(s, "Dashboard", PageError(df[s]),
       IF PageError(df[s]) = "none" THEN Dashboard(df[s]) ELSE <<>>)

\* Lines 114-127, the form not submitted.
LoggerView(s) == Show(s, "Logger", "none", <<>>)

\* Lines 114-123: the form is submitted and save_entry called, which calls load_data.
LoggerSubmit(s, a) ==
  /\ pc[s] = "page"
  /\ nsaves < MaxSaves
  /\ nsaves' = nsaves + 1
  /\ args' = [args EXCEPT ![s] = a]
  /\ ctx' = [ctx EXCEPT ![s] = "save"]
  /\ res' = [res EXCEPT ![s].page = "Logger"]
  /\ pc' = [pc EXCEPT ![s] = "exists"]
  /\ UNCHANGED <<file, today, df, ret, nfail, version, stamp, wrote>>

\* Lines 130-135.
SorterPage(s, term) == Show(s, "Sorter", "none", <<term, get_waste_advice(term)>>)

\* Lines 138-159.
AnalystPage(s) ==
  Show(s, "Analyst",
       IF PageError(df[s]) = "none" THEN Analyst(df[s]).err ELSE PageError(df[s]),
       IF PageError(df[s]) = "none" THEN Analyst(df[s]) ELSE <<>>)

\* Lines 162-185.
GamificationPage(s) ==
  Show(s, "Gamification", PageError(df[s]),
       IF PageError(df[s]) = "none" THEN Gamification(df[s]) ELSE <<>>)

\* save_entry, lines 37-45: the new row is added and the whole frame written.
Write(s) ==
  /\ pc[s] = "write"
  /\ ret' = [ret EXCEPT ![s] = concat(ret[s], NewEntry(today, args[s]))]
  /\ file' = WriteCsv(file, ret'[s])
  /\ version' = version + 1
  /\ wrote' = [wrote EXCEPT ![s] = version + 1]
  /\ res' = [res EXCEPT ![s].val = <<"saved">>]
  /\ pc' = [pc EXCEPT ![s] = "done"]
  /\ UNCHANGED <<today, ctx, df, args, nsaves, nfail, stamp>>

\* save_entry, line 44: to_csv raises OSError, which ends the run.
WriteFails(s) ==
  /\ pc[s] = "write"
  /\ nfail < MaxFailures
  /\ nfail' = nfail + 1
  /\ ret' = [ret EXCEPT ![s] = concat(ret[s], NewEntry(today, args[s]))]
  /\ file' \in FailedWrite(file, ret'[s])
  /\ version' = version + 1
  /\ res' = [res EXCEPT ![s].err = "OSError"]
  /\ pc' = [pc EXCEPT ![s] = "done"]
  /\ UNCHANGED <<today, ctx, df, args, nsaves, stamp, wrote>>

\* The run is over: its locals are gone.
Finish(s) ==
  /\ pc[s] = "done"
  /\ pc' = [pc EXCEPT ![s] = "idle"]
  /\ ctx' = [ctx EXCEPT ![s] = "main"]
  /\ df' = [df EXCEPT ![s] = EmptyFrame]
  /\ args' = [args EXCEPT ![s] = NoArgs]
  /\ ret' = [ret EXCEPT ![s] = EmptyFrame]
  /\ res' = [res EXCEPT ![s] = NoRes]
  /\ stamp' = [stamp EXCEPT ![s] = 0]
  /\ wrote' = [wrote EXCEPT ![s] = 0]
  /\ UNCHANGED <<file, today, nsaves, nfail, version>>

\* save_entry called by other code than the form, with whatever it passes.
CallSaveEntry(s, a) ==
  /\ AllIdle
  /\ nsaves < MaxSaves
  /\ nsaves' = nsaves + 1
  /\ args' = [args EXCEPT ![s] = a]
  /\ ctx' = [ctx EXCEPT ![s] = "save"]
  /\ res' = [res EXCEPT ![s].page = "save_entry"]
  /\ pc' = [pc EXCEPT ![s] = "exists"]
  /\ UNCHANGED <<file, today, df, ret, nfail, version, stamp, wrote>>

\* The storage steps of a run: load_data and save_entry.
Storage(s) ==
  \/ Exists(s)
  \/ Seed(s)
  \/ SeedFails(s)
  \/ Read(s)
  \/ Write(s)
  \/ WriteFails(s)
  \/ Finish(s)

\* The pages.
Page(s) ==
  \/ DashboardPage(s)
  \/ LoggerView(s)
  \/ \E a \in FormValues : LoggerSubmit(s, a)
  \/ \E term \in SearchTerms : SorterPage(s, term)
  \/ AnalystPage(s)
  \/ GamificationPage(s)

\* One run at a time: the single-user deployment the program is written for.
Next == Tick \/ \E s \in Sessions : RunAlone(s) \/ Storage(s) \/ Page(s)

Spec == Init /\ [][Next]_vars

\* One run at a time, and save_entry open to any caller.
NextApi ==
  \/ Tick
  \/ \E s \in Sessions : RunAlone(s) \/ Storage(s) \/ Page(s)
  \/ \E s \in Sessions : \E a \in CallerValues : CallSaveEntry(s, a)

SpecApi == Init /\ [][NextApi]_vars

\* Sessions on the Daily Logger run concurrently on the one file, unlocked,
\* within one day and with every write completing.
NextRace ==
  \E s \in Sessions :
    \/ Run(s)
    \/ Exists(s)
    \/ Seed(s)
    \/ Read(s)
    \/ LoggerView(s)
    \/ \E a \in FormValues : LoggerSubmit(s, a)
    \/ Write(s)
    \/ Finish(s)

SpecRace == Init /\ [][NextRace]_vars

\* ------------------------------------------------------------ properties
\* A file that holds records: the four columns, dates and numbers.
WellFormedFile(f) ==
  /\ f.kind = "table"
  /\ f.cols = ColNames
  /\ \A i \in 1..Len(f.rows) :
       /\ f.rows[i]["Date"].k = "iso"
       /\ \A c \in QtyCols : f.rows[i][c].k \in {"ilit", "flit"}

\* The same of a frame in memory.
WellFormedFrame(d) ==
  /\ d.cols = ColNames
  /\ \A i \in 1..Len(d.rows) :
       /\ d.rows[i]["Date"].k \in {"date", "s_iso"}
       /\ \A c \in QtyCols : d.rows[i][c].k \in {"int", "float"}

\* Storage that exists and is malformed: an expected column is missing, or a
\* quantity is not a number.
Malformed(f) ==
  /\ f.kind = "table"
  /\ \/ f.cols # ColNames
     \/ \E i \in 1..Len(f.rows) : \E c \in QtyCols : f.rows[i][c].k = "text"

\* The records (day, recycling, compost, landfill) a file or a frame holds.
RecordsOf(rows) ==
  [i \in 1..Len(rows) |->
     <<rows[i]["Date"].v, rows[i]["Recycling"].v, rows[i]["Compost"].v,
       rows[i]["Landfill"].v>>]

NonNegative(recs) ==
  \A i \in 1..Len(recs) : recs[i][2] >= 0 /\ recs[i][3] >= 0 /\ recs[i][4] >= 0

RECURSIVE Total(_, _)
Total(recs, j) == IF recs = <<>> THEN 0 ELSE recs[1][j] + Total(Tail(recs), j)

Shown(s, page) == pc[s] = "done" /\ res[s].page = page /\ res[s].err = "none"

\* ---- C1
AppendStep(s) == pc[s] = "write" /\ pc'[s] = "done" /\ res'[s].err = "none"

\* C1: every append that succeeds on a stored set of N records leaves in
\* storage, and returns, those N records unchanged and in order, followed by
\* the one new record (today, r, c, l): N + 1 records.
C1_AppendAddsOneRecord ==
  [][\A s \in Sessions :
       (AppendStep(s) /\ WellFormedFile(file)) =>
          /\ WellFormedFile(file')
          /\ RecordsOf(file'.rows) =
               Append(RecordsOf(file.rows),
                      <<today, args[s][1].v, args[s][2].v, args[s][3].v>>)
          /\ Len(file'.rows) = Len(file.rows) + 1
          /\ WellFormedFrame(ret'[s])
          /\ RecordsOf(ret'[s].rows) = RecordsOf(file'.rows)]_vars

\* Two appends after the seed: seven records, the last one (5, 2, 3).
C1_Witness ==
  \E s \in Sessions :
    /\ Shown(s, "Logger") /\ res[s].val = <<"saved">>
    /\ WellFormedFile(file)
    /\ Len(file.rows) = 7
    /\ RecordsOf(file.rows)[7] = <<today, 5, 2, 3>>
    /\ RecordsOf(file.rows)[1][2] = 45

\* ---- C2
SeedRecords(now) ==
  << <<now, 45, 20, 100>>, <<now - 7, 48, 22, 95>>, <<now - 14, 50, 25, 90>>,
     <<now - 21, 52, 28, 85>>, <<now - 28, 40, 15, 110>> >>

Loaded(s) == IF ctx[s] = "main" THEN df[s] ELSE ret[s]

\* C2: load writes only when the storage does not exist, and then the five
\* seed records, dated weekly back from today; on storage that exists it
\* returns the stored rows in order and leaves the storage as it is.
C2_LoadSeedsOnlyMissingStorage ==
  [][\A s \in Sessions :
       /\ (pc[s] \in {"exists", "seed", "read"} /\ pc'[s] # pc[s] /\ file.kind # "absent")
            => file' = file
       /\ (pc[s] = "seed" /\ pc'[s] = "read")
            => /\ file.kind = "absent"
               /\ WellFormedFile(file')
               /\ RecordsOf(file'.rows) = SeedRecords(today)
       /\ (pc[s] = "read" /\ pc'[s] \in {"page", "write"} /\ WellFormedFile(file))
            => /\ WellFormedFrame(Loaded(s)')
               /\ RecordsOf(Loaded(s)'.rows) = RecordsOf(file.rows)]_vars

\* A load has created the seed and returned it.
C2_Witness ==
  \E s \in Sessions :
    /\ pc[s] = "page"
    /\ version = 1
    /\ WellFormedFile(file)
    /\ RecordsOf(file.rows) = SeedRecords(today)
    /\ RecordsOf(df[s].rows) = SeedRecords(today)

\* ---- C3
\* C3: an append whose write fails leaves the storage as it was.
C3_FailedAppendKeepsStorage ==
  [][\A s \in Sessions :
       (pc[s] = "write" /\ pc'[s] = "done" /\ res'[s].err # "none") => file' = file]_vars

\* ---- C4
\* C4: a negative quantity is rejected by append, so no stored record ever
\* holds one.
C4_StoredQuantitiesNonNegative ==
  file.kind = "table" =>
    \A i \in 1..Len(file.rows) : \A c \in QtyCols \cap file.cols :
      file.rows[i][c].k \in {"ilit", "flit"} => file.rows[i][c].v >= 0

\* ---- C5
\* C5: load never returns a record set from malformed storage (it raises), so
\* no run goes on to a page or to the write of an append with one.
C5_MalformedStorageIsRejected ==
  \A s \in Sessions : pc[s] \in {"page", "write"} => ~Malformed(file)

\* ---- C6
Saved(s) == Shown(s, "Logger") /\ res[s].val = <<"saved">> /\ WellFormedFrame(ret[s])

Base(s) == SubSeq(RecordsOf(ret[s].rows), 1, Len(ret[s].rows) - 1)

\* Both appends read the same version of the file, and t wrote last.
Raced(s, t) ==
  /\ s # t
  /\ Saved(s) /\ Saved(t)
  /\ stamp[s] = stamp[t]
  /\ wrote[s] < wrote[t]
  /\ version = wrote[t]

\* C6: when two appends have both loaded the same N records before either
\* wrote, the storage ends with N + 1 records, the N and the last writer's; the
\* other append's record is gone and neither has reported an error.
C6_LastWriterWins ==
  \A s, t \in Sessions :
    Raced(s, t) =>
      /\ Base(s) = Base(t)
      /\ WellFormedFile(file)
      /\ Len(file.rows) = Len(Base(t)) + 1
      /\ RecordsOf(file.rows) = RecordsOf(ret[t].rows)
      /\ res[s].err = "none" /\ res[t].err = "none"

\* The race on the one-record file, the lost record being (5, 2, 3).
C6_Witness ==
  \E s, t \in Sessions :
    /\ Raced(s, t)
    /\ Len(file.rows) = 2
    /\ RecordsOf(ret[s].rows)[2] = <<today, 5, 2, 3>>
    /\ RecordsOf(file.rows)[2] = <<today, 0, 0, 0>>

\* ---- C7
\* C7: on records with non-negative quantities the dashboard's totals are the
\* column sums, grand_total their sum, and diversion_rate is
\* 100 * (total_recycling + total_compost) / grand_total when grand_total > 0
\* and 0 when it is 0; the rate lies in [0, 100] and the page does not fail.
C7_AggregateIsCorrect ==
  \A s \in Sessions :
    (pc[s] = "done" /\ res[s].page = "Dashboard" /\ WellFormedFrame(df[s])
       /\ NonNegative(RecordsOf(df[s].rows))) =>
      LET recs == RecordsOf(df[s].rows)
          m == res[s].val
          diverted == Total(recs, 2) + Total(recs, 3)
      IN  /\ res[s].err = "none"
          /\ m.total_recycling = Total(recs, 2)
          /\ m.total_compost = Total(recs, 3)
          /\ m.total_landfill = Total(recs, 4)
          /\ m.grand_total = diverted + Total(recs, 4)
          /\ m.div_rate[2] > 0
          /\ m.grand_total > 0 =>
               m.div_rate[1] * m.grand_total = 100 * diverted * m.div_rate[2]
          /\ m.grand_total = 0 => m.div_rate[1] = 0
          /\ 0 <= m.div_rate[1] /\ m.div_rate[1] <= 100 * m.div_rate[2]

\* The records (10, 5, 20), (0, 0, 0): totals 10, 5, 20, the rate 300/7 %.
C7_Witness ==
  \E s \in Sessions :
    /\ Shown(s, "Dashboard")
    /\ Len(df[s].rows) = 2
    /\ RecordsOf(df[s].rows)[2] = <<today, 0, 0, 0>>
    /\ res[s].val.grand_total = 35
    /\ res[s].val.div_rate = <<300, 7>>

\* ---- C8
\* C8: with total_diverted the sum of recycling and compost, the level is
\* floor(total_diverted / 100) + 1 and the progress (total_diverted mod 100) / 100:
\* the level is at least 1 and the progress in [0, 1).
C8_LevelAndProgress ==
  \A s \in Sessions :
    (pc[s] = "done" /\ res[s].page = "Gamification" /\ WellFormedFrame(df[s])) =>
      LET recs == RecordsOf(df[s].rows)
          total_diverted == Total(recs, 2) + Total(recs, 3)
          g == res[s].val
      IN  /\ res[s].err = "none"
          /\ g.total_saved = total_diverted
          /\ 100 * (g.level - 1) <= total_diverted
          /\ total_diverted < 100 * g.level
          /\ g.progress[2] > 0
          /\ g.progress[1] * 100 = (total_diverted - 100 * (g.level - 1)) * g.progress[2]
          /\ g.level >= 1
          /\ 0 <= g.progress[1] /\ g.progress[1] < g.progress[2]

\* The seed and one (5, 2, 3): 352 kg diverted, level 4, progress 52/100.
C8_Witness ==
  \E s \in Sessions :
    /\ Shown(s, "Gamification")
    /\ res[s].val.total_saved = 352
    /\ res[s].val.level = 4
    /\ res[s].val.progress = <<13, 25>>

\* ---- C9
\* The rate of one record, 0 for a record of all zeros.
RateOf(rec) ==
  IF rec[2] + rec[3] + rec[4] = 0 THEN RInt(0)
  ELSE Rat(100 * (rec[2] + rec[3]), rec[2] + rec[3] + rec[4])

\* Whether the line a * x + b is the least-squares line of (i, ys[i]): the
\* residuals sum to 0 and are orthogonal to x.
LeastSquares(a, b, ys) ==
  LET r(i) == RSub(ys[i], RAdd(RMul(a, RInt(i)), b))
  IN  /\ RSum([i \in 1..Len(ys) |-> r(i)]) = RInt(0)
      /\ RSum([i \in 1..Len(ys) |-> RMul(RInt(i), r(i))]) = RInt(0)

\* C9: on fewer than 2 points the forecast reports that it needs more data
\* and predicts nothing; on N >= 2 points it gives the 4 predictions for the
\* periods N+1 .. N+4, each the value there of the least-squares line of the
\* series, as it is (not clamped to [0, 100]).
C9_ForecastGuardAndHorizon ==
  \A s \in Sessions :
    (pc[s] = "done" /\ res[s].page = "Analyst" /\ WellFormedFrame(df[s])
       /\ NonNegative(RecordsOf(df[s].rows))) =>
      LET recs == RecordsOf(df[s].rows)
          n == Len(recs)
          ys == [i \in 1..n |-> RateOf(recs[i])]
          f == res[s].val
          a == RSub(f.predictions[2], f.predictions[1])
          b == RSub(f.predictions[1], RMul(a, RInt(n + 1)))
      IN  /\ res[s].err = "none"
          /\ n < 2 => /\ f.predictions = <<>>
                      /\ f.msg = "Need more data to predict."
          /\ n >= 2 => /\ Len(f.predictions) = 4
                       /\ f.weeks = <<n + 1, n + 2, n + 3, n + 4>>
                       /\ \A j \in 1..4 :
                            f.predictions[j] = RAdd(RMul(a, RInt(n + j)), b)
                       /\ LeastSquares(a, b, ys)

\* From the rates 300/7 and 0 the line falls below 0: the prediction for
\* period 3 is -300/7, passed through as it is.
C9_Witness ==
  \E s \in Sessions :
    /\ Shown(s, "Analyst")
    /\ Len(df[s].rows) = 2
    /\ res[s].val.weeks = <<3, 4, 5, 6>>
    /\ res[s].val.predictions[1] = <<-300, 7>>

\* ---- C10
\* The advice of the first key, in the table's order, that the text holds.
FirstMatch(text) ==
  IF \E i \in 1..Len(database) : Contains(text, database[i].key)
  THEN database[CHOOSE i \in 1..Len(database) :
                  /\ Contains(text, database[i].key)
                  /\ \A j \in 1..(i - 1) : ~Contains(text, database[j].key)].advice
  ELSE UnknownItem

\* The phrase a search term was typed from: lower case, nothing around it.
PhraseOf == [term \in SearchTerms |-> CHOOSE b \in Phrases : term \in Variants(b)]

\* What the lookup answers to each search term, and what it is to answer.
Answers == [term \in SearchTerms |-> get_waste_advice(term)]

Expected == [term \in SearchTerms |-> FirstMatch(PhraseOf[term])]

\* C10: lookup returns the advice of the first key of the table that is a
\* substring of the query in lower case and trimmed, the default message when
\* there is none; the case of the letters and the whitespace around the query
\* do not change the answer, nor does asking again.
C10_LookupFirstMatch ==
  \A s \in Sessions :
    (pc[s] = "done" /\ res[s].page = "Sorter") =>
      LET term == res[s].val[1]
          answer == res[s].val[2]
      IN  /\ res[s].err = "none"
          /\ answer = Expected[term]
          /\ \A v \in SearchTerms : PhraseOf[v] = PhraseOf[term] => Answers[v] = answer

\* "\tGLASS JAR PIZZA BOX " holds two keys: the table's first, pizza box, wins.
C10_Witness ==
  \E s \in Sessions :
    /\ Shown(s, "Sorter")
    /\ res[s].val[1] = <<"\t">> \o Upper(<<"g", "l", "a", "s", "s", " ", "j", "a", "r", " ", "p", "i", "z", "z", "a", " ", "b", "o", "x">>) \o <<" ">>
    /\ res[s].val[2] = "Compost (if greasy) / Recycle (if clean)"

=============================================================================
